---------------------------- MODULE Spec2Model ----------------------------
(***************************************************************************)
(* Memphis Tours ERP -> Google Sheets sync (robust_sync.py) and the header *)
(* initializer (exact_order_sheet_setup.py).                               *)
(*                                                                         *)
(* Python text is a sequence of one-character strings, so that lower(),    *)
(* substring tests and int() parsing are computed rather than assumed.     *)
(* A Python value is a pair <<"str", text>> or <<"int", n>>.               *)
(***************************************************************************)
EXTENDS Integers, Sequences, FiniteSets, TLC

VARIABLES
    sheet,        \* worksheet 0 of the spreadsheet: a sequence of rows of cell texts
    self_sheet,   \* self.sheet: FALSE is None, TRUE is a worksheet handle
    pc,           \* position of main(): "idle", "prereq", "setup", "data", "report", "exited"
    success,      \* what run_sync gave main: "none", "true", "false", "raised"
    stdout,       \* the monitoring words main printed in this invocation
    exit_status,  \* the process exit status, -1 while running
    stages,       \* the stages run_sync executed in this invocation, <<name, ok>> each
    env,          \* <<e>> when the environment of check_prerequisites is fixed beforehand, else <<>>
    checks,       \* the checks check_prerequisites performed, in order
    clock,        \* int(time.time()) at the last reading
    run_appended, \* rows appended to the sheet in this invocation of main
    call,         \* the last sync_to_google_sheets call and what it did
    fn_in,        \* the input of the function under check
    fn_out        \* its return value

vars == <<sheet, self_sheet, pc, success, stdout, exit_status, stages, env,
          checks, clock, run_appended, call, fn_in, fn_out>>

----------------------------------------------------------------------------
(* Bounds *)

\* longest incoming lead list of one sync call
MaxLeads == 2
\* most rows the sheet holds, header included, under direct sync calls
MaxRows == 4
\* most rows the sheet holds, header included, under runs of main
MaxRunRows == 3
\* most rows the sheet holds under the header initializer and syncs together
MaxSheetRows == 3
\* latest clock reading
MaxClock == 2
\* communications_count ranges over -MaxCount .. MaxCount
MaxCount == 3

----------------------------------------------------------------------------
(* Python text and values *)

Min(a, b) == IF a < b THEN a ELSE b

Max(a, b) == IF a > b THEN a ELSE b

Upper == <<"A","B","C","D","E","F","G","H","I","J","K","L","M","N","O","P","Q","R","S","T","U","V","W","X","Y","Z">>

LowerCase == <<"a","b","c","d","e","f","g","h","i","j","k","l","m","n","o","p","q","r","s","t","u","v","w","x","y","z">>

Digits == <<"0","1","2","3","4","5","6","7","8","9">>

\* str.lower() on one character
LowerChar(c) ==
    IF \E i \in 1..Len(Upper) : Upper[i] = c
    THEN LowerCase[CHOOSE i \in 1..Len(Upper) : Upper[i] = c]
    ELSE c

\* str.lower()
Lower(s) == [i \in 1..Len(s) |-> LowerChar(s[i])]

\* Python's  sub in s  on text
Contains(sub, s) ==
    \E i \in 1..(Len(s) - Len(sub) + 1) : SubSeq(s, i, i + Len(sub) - 1) = sub

DigitVal(c) == (CHOOSE i \in 1..10 : Digits[i] = c) - 1

IsDigit(c) == \E i \in 1..10 : Digits[i] = c

RECURSIVE StrNat(_)
\* str(n) for n >= 0
StrNat(n) == IF n < 10 THEN <<Digits[n + 1]>> ELSE StrNat(n \div 10) \o <<Digits[(n % 10) + 1]>>

\* str(n)
StrInt(n) == IF n < 0 THEN <<"-">> \o StrNat(-n) ELSE StrNat(n)

PyStr(s) == <<"str", s>>

PyInt(n) == <<"int", n>>

\* str(value)
Str(v) == IF v[1] = "int" THEN StrInt(v[2]) ELSE v[2]

\* the default '' of dict.get(key, '')
Blank == PyStr(<<>>)

\* lead.get(key, '')
Get(lead, key) == IF key \in DOMAIN lead THEN lead[key] ELSE Blank

----------------------------------------------------------------------------
(* score_sales_agent *)

\* the communications_count bucket: score and recommendation before the status adjustment
base_score(communications_count) ==
    IF communications_count = 0
    THEN [score |-> 3, recommendation |-> <<"N","o"," ","r","e","s","p","o","n","s","e"," ","f","r","o","m"," ","a","g","e","n","t"," ","y","e","t">>]
    ELSE IF communications_count = 1
    THEN [score |-> 6, recommendation |-> <<"I","n","i","t","i","a","l"," ","c","o","n","t","a","c","t"," ","m","a","d","e",","," ","n","e","e","d","s"," ","f","o","l","l","o","w","-","u","p">>]
    ELSE [score |-> 8, recommendation |-> <<"A","c","t","i","v","e"," ","c","o","m","m","u","n","i","c","a","t","i","o","n"," ","m","a","i","n","t","a","i","n","e","d">>]

\* a slip in the status adjustment: lower() forgotten, so the match is case-sensitive
score_sales_agent_case_sensitive(communications_count, lead_status) ==
    LET base == base_score(communications_count)
        status == lead_status
    IN  IF Contains(<<"c","o","n","f","i","r","m","e","d">>, status)
        THEN [score |-> Min(10, base.score + 2), recommendation |-> <<"L","e","a","d"," ","s","u","c","c","e","s","s","f","u","l","l","y"," ","c","o","n","v","e","r","t","e","d">>]
        ELSE IF Contains(<<"n","e","w">>, status) /\ communications_count > 0
        THEN [score |-> Max(1, base.score - 1), recommendation |-> <<"R","e","s","p","o","n","s","e"," ","n","e","e","d","e","d"," ","f","o","r"," ","n","e","w"," ","l","e","a","d">>]
        ELSE base

\* a slip in the status adjustment: the "new" rule asks for more than one communication
score_sales_agent_new_gt1(communications_count, lead_status) ==
    LET base == base_score(communications_count)
        status == IF lead_status # <<>> THEN Lower(lead_status) ELSE <<>>
    IN  IF Contains(<<"c","o","n","f","i","r","m","e","d">>, status)
        THEN [score |-> Min(10, base.score + 2), recommendation |-> <<"L","e","a","d"," ","s","u","c","c","e","s","s","f","u","l","l","y"," ","c","o","n","v","e","r","t","e","d">>]
        ELSE IF Contains(<<"n","e","w">>, status) /\ communications_count > 1
        THEN [score |-> Max(1, base.score - 1), recommendation |-> <<"R","e","s","p","o","n","s","e"," ","n","e","e","d","e","d"," ","f","o","r"," ","n","e","w"," ","l","e","a","d">>]
        ELSE base

\* score_sales_agent(communications_count, lead_status) -> (score, recommendation)
score_sales_agent(communications_count, lead_status) ==
    LET base == base_score(communications_count)
        status == IF lead_status # <<>> THEN Lower(lead_status) ELSE <<>>
    IN  IF Contains(<<"c","o","n","f","i","r","m","e","d">>, status)
        THEN [score |-> Min(10, base.score + 2), recommendation |-> <<"L","e","a","d"," ","s","u","c","c","e","s","s","f","u","l","l","y"," ","c","o","n","v","e","r","t","e","d">>]
        ELSE IF Contains(<<"n","e","w">>, status) /\ communications_count > 0
        THEN [score |-> Max(1, base.score - 1), recommendation |-> <<"R","e","s","p","o","n","s","e"," ","n","e","e","d","e","d"," ","f","o","r"," ","n","e","w"," ","l","e","a","d">>]
        ELSE base

----------------------------------------------------------------------------
(* check_profitability *)

RECURSIVE Join(_, _)
\* sep.join(parts)
Join(sep, parts) ==
    IF parts = <<>> THEN <<>>
    ELSE IF Len(parts) = 1 THEN parts[1]
    ELSE parts[1] \o sep \o Join(sep, Tail(parts))

\* a slip: the rules chained with elif, so the first match hides the others
check_profitability_elif(lead_data) ==
    LET pax == Lower(Str(Get(lead_data, "pax")))
        client_name == Lower(Str(Get(lead_data, "client_name")))
        flags ==
            IF pax = <<"1">> \/ Contains(<<"s","o","l","o">>, pax) THEN <<<<"S","o","l","o"," ","t","r","a","v","e","l","e","r"," ","(","1"," ","P","A","X",")">>>>
            ELSE IF Contains(<<"s","h","o","r","e">>, client_name) \/ Contains(<<"e","x","c","u","r","s","i","o","n">>, client_name)
            THEN <<<<"S","h","o","r","e"," ","e","x","c","u","r","s","i","o","n">>>>
            ELSE IF Contains(<<"d","a","y"," ","t","r","i","p">>, client_name) \/ Contains(<<"h","a","l","f"," ","d","a","y">>, client_name)
            THEN <<<<"S","h","o","r","t"," ","d","u","r","a","t","i","o","n"," ","t","r","i","p">>>>
            ELSE <<>>
    IN  IF flags # <<>> THEN Join(<<";"," ">>, flags) ELSE <<"N","o"," ","i","s","s","u","e","s"," ","i","d","e","n","t","i","f","i","e","d">>

\* check_profitability(lead_data) -> text
check_profitability(lead_data) ==
    LET pax == Lower(Str(Get(lead_data, "pax")))
        client_name == Lower(Str(Get(lead_data, "client_name")))
        flags1 == IF pax = <<"1">> \/ Contains(<<"s","o","l","o">>, pax)
                  THEN <<<<"S","o","l","o"," ","t","r","a","v","e","l","e","r"," ","(","1"," ","P","A","X",")">>>> ELSE <<>>
        flags2 == IF Contains(<<"s","h","o","r","e">>, client_name) \/ Contains(<<"e","x","c","u","r","s","i","o","n">>, client_name)
                  THEN Append(flags1, <<"S","h","o","r","e"," ","e","x","c","u","r","s","i","o","n">>) ELSE flags1
        flags3 == IF Contains(<<"d","a","y"," ","t","r","i","p">>, client_name) \/ Contains(<<"h","a","l","f"," ","d","a","y">>, client_name)
                  THEN Append(flags2, <<"S","h","o","r","t"," ","d","u","r","a","t","i","o","n"," ","t","r","i","p">>) ELSE flags2
    IN  IF flags3 # <<>> THEN Join(<<";"," ">>, flags3) ELSE <<"N","o"," ","i","s","s","u","e","s"," ","i","d","e","n","t","i","f","i","e","d">>

----------------------------------------------------------------------------
(* The worksheet and the gspread calls made on it *)

\* exact_order_headers: the header row
exact_order_headers ==
    <<
      <<"#">>, <<"H","u","b">>, <<"C","l","i","e","n","t"," ","N","a","m","e">>, <<"N","a","t","i","o","n","a","l","i","t","y">>, <<"E","m","a","i","l">>, <<"O","p","e","r","a","t","o","r">>, <<"F","i","l","e"," ","S","t","a","t","u","s">>,
      <<"A","r","r","i","v","a","l">>, <<"D","e","p","a","r","t","u","r","e">>, <<"P","a","x">>, <<"L","e","a","d"," ","/"," ","O","p","e","r","a","t","i","o","n">>, <<"R","e","q","u","e","s","t"," ","C","h","a","n","n","e","l">>, <<"C","o","m","m","u","n","i","c","a","t","i","o","n">>,
      <<"M","e","d","i","u","m">>, <<"O","f","f","e","r","e","d"," ","I","n","c","o","m","e">>, <<"O","f","f","e","r","e","d"," ","I","n","c","o","m","e"," ","(","U","S","D",")">>, <<"A","c","t","u","a","l"," ","P","a","i","d"," ","A","m","o","u","n","t">>,
      <<"A","c","t","u","a","l"," ","P","a","i","d"," ","A","m","o","u","n","t"," ","(","U","S","D",")">>, <<"R","e","m","a","i","n","i","n","g"," ","P","a","y","m","e","n","t">>, <<"R","e","m","a","i","n","i","n","g"," ","P","a","y","m","e","n","t"," ","(","U","S","D",")">>,
      <<"S","u","b","m","i","s","s","i","o","n"," ","D","a","t","e">>, <<"C","o","n","f","i","r","m","a","t","i","o","n"," ","D","a","t","e">>, <<"C","o","m","p","a","n","y">>, <<"D","e","p","a","r","t","m","e","n","t">>, <<"P","r","o","d","u","c","t"," ","T","i","t","l","e">>,
      <<"U","T","M"," ","C","a","m","p","a","i","g","n">>, <<"I","n","i","t","i","a","l"," ","P","r","i","c","e">>, <<"D","e","v","i","c","e"," ","T","y","p","e">>, <<"C","l","i","e","n","t"," ","P","h","o","n","e">>, <<"F","i","l","e"," ","N","o">>,
      <<"R","e","q","u","e","s","t"," ","T","o","k","e","n">>, <<"S","a","l","e","s"," ","P","e","r","s","o","n">>, <<"R","e","q","u","e","s","t"," ","S","t","a","t","u","s">>, <<"S","o","u","r","c","e">>, <<"V","I","P"," ","S","t","a","t","u","s">>,
      <<"L","o","y","a","l","t","y"," ","P","r","o","g","r","a","m">>, <<"G","r","o","u","p">>, <<"H","a","s"," ","I","n","t","."," ","F","l","i","g","h","t">>, <<"S","i","n","g","l","e"," ","R","o","o","m">>, <<"D","o","u","b","l","e"," ","R","o","o","m">>,
      <<"T","r","i","p","l","e"," ","R","o","o","m">>, <<"F","a","m","i","l","y"," ","R","o","o","m">>, <<"I","n","t",".","F","l","i","g","h","t"," ","A","m","o","u","n","t">>, <<"I","n","t",".","F","l","i","g","h","t"," ","C","u","r","r","e","n","c","y">>,
      <<"A","g","e","n","t"," ","/"," ","G","r","o","u","p"," ","D","i","s","c","o","u","n","t">>, <<"A","g","e","n","t"," ","S","c","o","r","e">>, <<"A","g","e","n","t"," ","R","e","c","o","m","m","e","n","d","a","t","i","o","n">>, <<"I","P"," ","C","o","u","n","t","r","y">>,
      <<"I","P"," ","S","t","a","t","e","/","R","e","g","i","o","n">>, <<"I","P"," ","C","i","t","y">>, <<"P","r","o","f","i","t","a","b","i","l","i","t","y"," ","F","l","a","g">>, <<"C","o","m","m","u","n","i","c","a","t","i","o","n"," ","C","o","u","n","t">>,
      <<"L","a","s","t"," ","U","p","d","a","t","e","d">>, <<"L","e","a","d"," ","I","D">>, <<"L","e","a","d"," ","U","R","L">>
    >>

\* the keys of row_data, in the order sync_to_google_sheets reads them
row_keys ==
    <<
      "row_number", "hub", "client_name", "nationality", "email", "operator", "file_status",
      "arrival", "departure", "pax", "lead_operation", "request_channel", "communication",
      "medium", "offered_income", "offered_income_usd", "actual_paid_amount",
      "actual_paid_amount_usd", "remaining_payment", "remaining_payment_usd", "submission_date",
      "confirmation_date", "company", "department", "product_title", "utm_campaign",
      "initial_price", "device_type", "client_phone", "file_no", "request_token", "sales_person",
      "request_status", "source", "vip_status", "loyalty_program", "group", "has_int_flight",
      "single_room", "double_room", "triple_room", "family_room", "int_flight_amount",
      "int_flight_currency", "agent_group_discount", "agent_score", "agent_recommendation",
      "ip_country", "ip_region", "ip_city", "profitability_flag", "communications_count",
      "last_updated", "lead_id", "lead_url"
    >>

\* what the Sheets API stores for a value written RAW, as the text it reads back
CellText(v) == Str(v)

\* worksheet.append_rows(rows): the rows go below the last row of the sheet
append_rows(sh, rows) ==
    sh \o [i \in 1..Len(rows) |-> [j \in 1..Len(rows[i]) |-> CellText(rows[i][j])]]

\* whether int(text) parses: an optional sign and decimal digits
IsIntLiteral(text) ==
    LET body == IF text # <<>> /\ text[1] \in {"-", "+"} THEN Tail(text) ELSE text
    IN  body # <<>> /\ \A i \in 1..Len(body) : IsDigit(body[i])

RECURSIVE NatValue(_)
NatValue(digits) ==
    IF digits = <<>> THEN 0
    ELSE 10 * NatValue(SubSeq(digits, 1, Len(digits) - 1)) + DigitVal(digits[Len(digits)])

\* int(text)
IntValue(text) ==
    IF text[1] = "-" THEN 0 - NatValue(Tail(text))
    ELSE IF text[1] = "+" THEN NatValue(Tail(text))
    ELSE NatValue(text)

\* gspread's numericise, which get_all_records applies to every cell by default:
\* text that int() parses comes back as a number, other text unchanged
numericise(text) == IF IsIntLiteral(text) THEN PyInt(IntValue(text)) ELSE PyStr(text)

\* the column of row 1 holding header key, 0 when no cell of row 1 holds it
header_column(sh, key) ==
    IF \E j \in 1..Len(sh[1]) : sh[1][j] = key
    THEN CHOOSE j \in 1..Len(sh[1]) : sh[1][j] = key
    ELSE 0

\* get_all_records raises on a sheet that has no header row
get_all_records_raises(sh) == sh = <<>>

\* {row.get('Request Token', '') for row in existing_data}: get_all_records gives
\* one mapping per data row, keyed by the cells of row 1, every cell numericised
\* and a row shorter than the header padded with blanks
existing_tokens_of(sh) ==
    LET j == header_column(sh, <<"R","e","q","u","e","s","t"," ","T","o","k","e","n">>)
    IN  { IF j = 0 THEN Blank
          ELSE IF j <= Len(sh[r + 1]) THEN numericise(sh[r + 1][j])
          ELSE Blank : r \in 1..(Len(sh) - 1) }

----------------------------------------------------------------------------
(* sync_to_google_sheets *)

\* row_data of one lead: 55 values in the fixed order
row_data(lead) == [i \in 1..Len(row_keys) |-> Get(lead, row_keys[i])]

RECURSIVE new_rows_of(_, _)
\* the loop over leads_data: a lead's row joins new_rows when its token is not
\* in existing_tokens, which the loop never extends
new_rows_of(leads_data, existing_tokens) ==
    IF leads_data = <<>> THEN <<>>
    ELSE LET lead == Head(leads_data)
             request_token == Get(lead, "request_token")
             rest == new_rows_of(Tail(leads_data), existing_tokens)
         IN  IF request_token \notin existing_tokens
             THEN <<row_data(lead)>> \o rest
             ELSE rest

\* a slip: a failed append still reports the rows that were prepared
sync_to_google_sheets_count_on_failure(sh, has_sheet, leads_data, read_ok, append_ok) ==
    IF ~has_sheet
    THEN [sheet |-> sh, ret |-> 0, existing |-> {}, batch |-> 0, append_calls |-> 0]
    ELSE LET existing_tokens ==
                 IF read_ok /\ ~get_all_records_raises(sh)
                 THEN existing_tokens_of(sh)
                 ELSE {}
             new_rows == new_rows_of(leads_data, existing_tokens)
             updated_count == Len(new_rows)
         IN  [sheet |-> IF append_ok THEN append_rows(sh, new_rows) ELSE sh,
              ret |-> updated_count, existing |-> existing_tokens,
              batch |-> Len(new_rows),
              append_calls |-> IF new_rows # <<>> THEN 1 ELSE 0]

\* sync_to_google_sheets(leads_data) on worksheet sh; read_ok and append_ok say
\* whether the two remote calls answer.  Gives the sheet afterwards, the count
\* returned, the tokens read, the size of the batch and whether it was sent.
sync_to_google_sheets(sh, has_sheet, leads_data, read_ok, append_ok) ==
    IF ~has_sheet
    THEN [sheet |-> sh, ret |-> 0, existing |-> {}, batch |-> 0, append_calls |-> 0]
    ELSE LET existing_tokens ==
                 IF read_ok /\ ~get_all_records_raises(sh)
                 THEN existing_tokens_of(sh)
                 ELSE {}
             new_rows == new_rows_of(leads_data, existing_tokens)
             updated_count == Len(new_rows)
         IN  IF new_rows # <<>>
             THEN IF append_ok
                  THEN [sheet |-> append_rows(sh, new_rows), ret |-> updated_count,
                        existing |-> existing_tokens, batch |-> Len(new_rows),
                        append_calls |-> 1]
                  ELSE [sheet |-> sh, ret |-> 0, existing |-> existing_tokens,
                        batch |-> Len(new_rows), append_calls |-> 1]
             ELSE [sheet |-> sh, ret |-> updated_count, existing |-> existing_tokens,
                   batch |-> 0, append_calls |-> 0]

\* the record kept of a call
CallRecord(leads_data, has_sheet, read_ok, append_ok, r, before) ==
    [leads |-> leads_data, connected |-> has_sheet, read_ok |-> read_ok,
     append_ok |-> append_ok, existing |-> r.existing, batch |-> r.batch,
     append_calls |-> r.append_calls, appended |-> Len(r.sheet) - Len(before),
     ret |-> r.ret, repeat |-> (call.n = 1 /\ call.leads = leads_data), n |-> 1]

NoCall ==
    [leads |-> <<>>, connected |-> FALSE, read_ok |-> TRUE, append_ok |-> TRUE,
     existing |-> {}, batch |-> 0, append_calls |-> 0, appended |-> 0, ret |-> 0,
     repeat |-> FALSE, n |-> 0]

----------------------------------------------------------------------------
(* add_sample_data_safe *)

\* datetime.now().strftime(...): the clock reading as text (the clock counts
\* abstract ticks, so every format gives the tick number)
strftime(now) == StrInt(now)

\* the one synthetic lead, built at clock reading now
sample_leads(now) ==
    << [
      row_number |-> PyStr(StrInt(now % 1000)),
      hub |-> PyStr(<<"m","e","m","p","h","i","s","t","o","u","r","s",".","c","o","m">>),
      client_name |-> PyStr(<<"T","e","s","t"," ","C","l","i","e","n","t"," ">> \o strftime(now)),
      nationality |-> PyStr(<<"T","e","s","t"," ","C","o","u","n","t","r","y">>),
      email |-> PyStr(<<"t","e","s","t","@","e","x","a","m","p","l","e",".","c","o","m">>),
      operator |-> PyStr(<<"M","e","m","p","h","i","s"," ","T","o","u","r","s">>),
      file_status |-> PyStr(<<"A","c","t","i","v","e">>),
      arrival |-> PyStr(<<"2","0","2","5","-","1","0","-","1","5">>),
      departure |-> PyStr(<<"2","0","2","5","-","1","0","-","2","2">>),
      pax |-> PyStr(<<"2">>),
      lead_operation |-> PyStr(<<"L","e","a","d">>),
      request_channel |-> PyStr(<<"W","e","b","s","i","t","e">>),
      communication |-> PyStr(<<"E","m","a","i","l">>),
      medium |-> PyStr(<<"O","n","l","i","n","e">>),
      offered_income |-> PyStr(<<"1","0","0","0",".","0","0">>),
      offered_income_usd |-> PyStr(<<"1","0","0","0",".","0","0">>),
      actual_paid_amount |-> PyStr(<<"0",".","0","0">>),
      actual_paid_amount_usd |-> PyStr(<<"0",".","0","0">>),
      remaining_payment |-> PyStr(<<"1","0","0","0",".","0","0">>),
      remaining_payment_usd |-> PyStr(<<"1","0","0","0",".","0","0">>),
      submission_date |-> PyStr(strftime(now)),
      confirmation_date |-> PyStr(<<"N","/","A">>),
      company |-> PyStr(<<"M","e","m","p","h","i","s"," ","T","o","u","r","s">>),
      department |-> PyStr(<<"C","o","r","p","o","r","a","t","e"," ","S","a","l","e","s">>),
      product_title |-> PyStr(<<"T","e","s","t"," ","T","o","u","r"," ","P","a","c","k","a","g","e">>),
      utm_campaign |-> PyStr(<<"t","e","s","t","_","c","a","m","p","a","i","g","n">>),
      initial_price |-> PyStr(<<"1","0","0","0",".","0","0">>),
      device_type |-> PyStr(<<"D","e","s","k","t","o","p">>),
      client_phone |-> PyStr(<<"+","1","-","5","5","5","-","0","1","2","3">>),
      file_no |-> PyStr(<<"M","T">> \o StrInt(now)),
      request_token |-> PyStr(<<"T","E","S","T">> \o StrInt(now)),
      sales_person |-> PyStr(<<"T","e","s","t"," ","A","g","e","n","t">>),
      request_status |-> PyStr(<<"N","e","w"," ","R","e","q","u","e","s","t">>),
      source |-> PyStr(<<"T","e","s","t"," ","S","i","t","e">>),
      vip_status |-> PyStr(<<"N","o">>),
      loyalty_program |-> PyStr(<<"F","r","e","s","h"," ","C","u","s","t","o","m","e","r">>),
      group |-> PyStr(<<"N","o">>),
      has_int_flight |-> PyStr(<<"N","o">>),
      single_room |-> PyStr(<<"0">>),
      double_room |-> PyStr(<<"1">>),
      triple_room |-> PyStr(<<"0">>),
      family_room |-> PyStr(<<"0">>),
      int_flight_amount |-> PyStr(<<"0">>),
      int_flight_currency |-> PyStr(<<"U","S","D">>),
      agent_group_discount |-> PyStr(<<"0">>),
      communications_count |-> PyInt(1),
      lead_id |-> PyStr(<<"T","E","S","T">> \o StrInt(now)),
      lead_url |-> PyStr(<<"h","t","t","p","s",":","/","/","e","x","a","m","p","l","e",".","c","o","m","/","t","e","s","t">>)
    ] >>

\* get_ip_geolocation('8.8.8.8'): the lookup answers, or every field is "N/A"
GeoResults ==
    { [country |-> PyStr(<<"N","/","A">>), region |-> PyStr(<<"N","/","A">>), city |-> PyStr(<<"N","/","A">>)],
      [country |-> PyStr(<<"U","n","i","t","e","d"," ","S","t","a","t","e","s">>), region |-> PyStr(<<"C","a","l","i","f","o","r","n","i","a">>),
       city |-> PyStr(<<"M","o","u","n","t","a","i","n"," ","V","i","e","w">>)] }

\* the enrichment loop: each lead updated with the derived fields
enriched_leads(leads, geo_data, now) ==
    [i \in 1..Len(leads) |->
        LET lead == leads[i]
            scored == score_sales_agent(Get(lead, "communications_count")[2],
                                        Str(Get(lead, "request_status")))
        IN  [agent_score |-> PyInt(scored.score),
             agent_recommendation |-> PyStr(scored.recommendation),
             ip_country |-> geo_data.country,
             ip_region |-> geo_data.region,
             ip_city |-> geo_data.city,
             profitability_flag |-> PyStr(check_profitability(lead)),
             last_updated |-> PyStr(strftime(now))] @@ lead]

\* a slip: a sync that added nothing still counts as success
add_sample_data_result_any_count(synced_count) == synced_count >= 0

\* return synced_count > 0
add_sample_data_result(synced_count) == synced_count > 0

----------------------------------------------------------------------------
(* check_prerequisites *)

required_packages == <<"gspread", "google", "requests">>

\* what the connectivity request can do: answer 200, answer another status, raise
NetOutcomes == {"200", "503", "exception"}

Envs ==
    [exists : BOOLEAN, valid_json : BOOLEAN,
     importable : SUBSET {required_packages[i] : i \in 1..Len(required_packages)},
     net : NetOutcomes]

RECURSIVE import_checks(_, _)
\* the loop over required_packages from position i: the imports tried, and
\* whether all of them succeeded; the first ImportError ends the loop
import_checks(e, i) ==
    IF i > Len(required_packages) THEN [checks |-> <<>>, ok |-> TRUE]
    ELSE IF required_packages[i] \notin e.importable
    THEN [checks |-> <<required_packages[i]>>, ok |-> FALSE]
    ELSE LET rest == import_checks(e, i + 1)
         IN  [checks |-> <<required_packages[i]>> \o rest.checks, ok |-> rest.ok]

\* a slip: a missing package is logged but the loop goes on to the next check
check_prerequisites_no_return(e) ==
    IF ~e.exists THEN [ret |-> FALSE, checks |-> <<"exists">>]
    ELSE IF ~e.valid_json THEN [ret |-> FALSE, checks |-> <<"exists", "json">>]
    ELSE LET all == [i \in 1..Len(required_packages) |-> required_packages[i]]
         IN  [ret |-> e.net # "exception",
              checks |-> <<"exists", "json">> \o all \o <<"connectivity">>]

\* check_prerequisites() in environment e: the value returned and the checks made
check_prerequisites(e) ==
    IF ~e.exists THEN [ret |-> FALSE, checks |-> <<"exists">>]
    ELSE IF ~e.valid_json THEN [ret |-> FALSE, checks |-> <<"exists", "json">>]
    ELSE LET imports == import_checks(e, 1)
         IN  IF ~imports.ok
             THEN [ret |-> FALSE, checks |-> <<"exists", "json">> \o imports.checks]
             ELSE [ret |-> e.net # "exception",
                   checks |-> <<"exists", "json">> \o imports.checks \o <<"connectivity">>]

----------------------------------------------------------------------------
(* setup_google_sheets, run_sync, main *)

\* setup_google_sheets: everything succeeds; or the credentials, the client or
\* the spreadsheet fail before self.sheet is assigned; or the test read of
\* cell (1, 1) fails after it
SetupOutcomes == {"ok", "no_handle", "no_cell"}

\* a slip: a failed sheet setup is logged without the return
run_sync_setup_not_checked(stage, ok) ==
    IF stage = "prereq" THEN (IF ok THEN [pc |-> "setup", success |-> "none"]
                                    ELSE [pc |-> "report", success |-> "false"])
    ELSE IF stage = "setup" THEN [pc |-> "data", success |-> "none"]
    ELSE [pc |-> "report", success |-> IF ok THEN "true" ELSE "false"]

\* run_sync: where control goes after a stage, and the value returned once known
run_sync_after(stage, ok) ==
    IF ~ok THEN [pc |-> "report", success |-> "false"]
    ELSE IF stage = "prereq" THEN [pc |-> "setup", success |-> "none"]
    ELSE IF stage = "setup" THEN [pc |-> "data", success |-> "none"]
    ELSE [pc |-> "report", success |-> "true"]

\* a slip: sys.exit(1) missing after FAILED
main_report_no_exit(result) ==
    IF result = "true" THEN [word |-> "SUCCESS", status |-> 0]
    ELSE IF result = "false" THEN [word |-> "FAILED", status |-> 0]
    ELSE [word |-> "FATAL_ERROR", status |-> 1]

\* main: the word printed and the exit status, from what run_sync gave
main_report(result) ==
    IF result = "true" THEN [word |-> "SUCCESS", status |-> 0]
    ELSE IF result = "false" THEN [word |-> "FAILED", status |-> 1]
    ELSE [word |-> "FATAL_ERROR", status |-> 1]

Init ==
    /\ sheet = <<exact_order_headers>>
    /\ self_sheet = FALSE
    /\ pc = "idle"
    /\ success = "none"
    /\ stdout = <<>>
    /\ exit_status = -1
    /\ stages = <<>>
    /\ env = <<>>
    /\ checks = <<>>
    /\ clock = 1
    /\ run_appended = 0
    /\ call = NoCall
    /\ fn_in = <<>>
    /\ fn_out = <<>>

\* main() starts: RobustMemphisToursSync() is built and run_sync entered; raised
\* is an exception that gets past run_sync's own handler
StartMain ==
    /\ pc \in {"idle", "exited"}
    /\ \E raised \in BOOLEAN :
        /\ pc' = IF raised THEN "report" ELSE "prereq"
        /\ success' = IF raised THEN "raised" ELSE "none"
    /\ self_sheet' = FALSE
    /\ stdout' = <<>>
    /\ exit_status' = -1
    /\ stages' = <<>>
    /\ checks' = <<>>
    /\ run_appended' = 0
    /\ UNCHANGED <<sheet, env, clock, call, fn_in, fn_out>>

\* check_prerequisites, in an environment the stage meets or one fixed beforehand
PrereqStage ==
    /\ pc = "prereq"
    /\ \E e \in (IF env = <<>> THEN Envs ELSE {env[1]}) :
        LET r == check_prerequisites(e)
            after == run_sync_after("prereq", r.ret)
        IN  /\ checks' = r.checks
            /\ stages' = Append(stages, <<"prereq", r.ret>>)
            /\ pc' = after.pc
            /\ success' = after.success
    /\ UNCHANGED <<sheet, self_sheet, stdout, exit_status, env, clock, run_appended, call,
                   fn_in, fn_out>>

SetupStage ==
    /\ pc = "setup"
    /\ \E outcome \in SetupOutcomes :
        LET after == run_sync_after("setup", outcome = "ok")
        IN  /\ self_sheet' = (outcome # "no_handle")
            /\ stages' = Append(stages, <<"setup", outcome = "ok">>)
            /\ pc' = after.pc
            /\ success' = after.success
    /\ UNCHANGED <<sheet, stdout, exit_status, env, checks, clock, run_appended, call,
                   fn_in, fn_out>>

\* add_sample_data_safe: build the sample lead, enrich it, sync it; one clock
\* reading serves the whole stage
DataStage ==
    /\ pc = "data"
    /\ \E now \in clock..MaxClock, geo_data \in GeoResults, read_ok \in BOOLEAN,
          append_ok \in BOOLEAN :
        LET leads == enriched_leads(sample_leads(now), geo_data, now)
            r == sync_to_google_sheets(sheet, self_sheet, leads, read_ok, append_ok)
            ok == add_sample_data_result(r.ret)
            after == run_sync_after("data", ok)
        IN  /\ Len(r.sheet) <= MaxRunRows
            /\ clock' = now
            /\ sheet' = r.sheet
            /\ run_appended' = run_appended + (Len(r.sheet) - Len(sheet))
            /\ call' = CallRecord(leads, self_sheet, read_ok, append_ok, r, sheet)
            /\ stages' = Append(stages, <<"data", ok>>)
            /\ pc' = after.pc
            /\ success' = after.success
    /\ UNCHANGED <<self_sheet, stdout, exit_status, env, checks, fn_in, fn_out>>

\* main prints its word and the process ends
Report ==
    /\ pc = "report"
    /\ LET r == main_report(success)
       IN  /\ stdout' = Append(stdout, r.word)
           /\ exit_status' = r.status
    /\ pc' = "exited"
    /\ UNCHANGED <<sheet, self_sheet, success, stages, env, checks, clock, run_appended,
                   call, fn_in, fn_out>>

Next == StartMain \/ PrereqStage \/ SetupStage \/ DataStage \/ Report

Spec == Init /\ [][Next]_vars

----------------------------------------------------------------------------
(* sync_to_google_sheets called with any lead lists *)

TokenTexts == { <<"A">>, <<"B">>, <<"7">> }

SyncLeads == { [request_token |-> PyStr(t), client_name |-> PyStr(<<"C","l","i","e","n","t">>)] : t \in TokenTexts }

RECURSIVE SeqsUpTo(_, _)
SeqsUpTo(S, n) ==
    IF n = 0 THEN { <<>> }
    ELSE LET shorter == SeqsUpTo(S, n - 1)
         IN  shorter \cup { Append(s, x) : s \in shorter, x \in S }

LeadWithToken(t) == CHOOSE l \in SyncLeads : l.request_token = PyStr(t)

\* the incoming list of the documented example: tokens "A", "B", "B"
ExampleLeads == << LeadWithToken(<<"A">>), LeadWithToken(<<"B">>), LeadWithToken(<<"B">>) >>

LeadLists == SeqsUpTo(SyncLeads, MaxLeads) \cup { ExampleLeads }

InitSync ==
    /\ sheet = <<exact_order_headers>>
    /\ self_sheet \in BOOLEAN
    /\ pc = "idle"
    /\ success = "none"
    /\ stdout = <<>>
    /\ exit_status = -1
    /\ stages = <<>>
    /\ env = <<>>
    /\ checks = <<>>
    /\ clock = 1
    /\ run_appended = 0
    /\ call = NoCall
    /\ fn_in = <<>>
    /\ fn_out = <<>>

SyncCall ==
    \E leads_data \in LeadLists, read_ok \in BOOLEAN, append_ok \in BOOLEAN :
        LET r == sync_to_google_sheets(sheet, self_sheet, leads_data, read_ok, append_ok)
        IN  /\ Len(r.sheet) <= MaxRows
            /\ sheet' = r.sheet
            /\ call' = CallRecord(leads_data, self_sheet, read_ok, append_ok, r, sheet)
            /\ UNCHANGED <<self_sheet, pc, success, stdout, exit_status, stages, env,
                           checks, clock, run_appended, fn_in, fn_out>>

NextSync == SyncCall

SpecSync == InitSync /\ [][NextSync]_vars

----------------------------------------------------------------------------
(* check_prerequisites in every environment *)

InitPrereq ==
    /\ sheet = <<exact_order_headers>>
    /\ self_sheet = FALSE
    /\ pc = "prereq"
    /\ success = "none"
    /\ stdout = <<>>
    /\ exit_status = -1
    /\ stages = <<>>
    /\ env \in { <<e>> : e \in Envs }
    /\ checks = <<>>
    /\ clock = 1
    /\ run_appended = 0
    /\ call = NoCall
    /\ fn_in = <<>>
    /\ fn_out = <<>>

NextPrereq == PrereqStage

SpecPrereq == InitPrereq /\ [][NextPrereq]_vars

----------------------------------------------------------------------------
(* The pure enrichment functions, applied to inputs drawn from bounded sets *)

Counts == (0 - MaxCount)..MaxCount

Statuses ==
    { <<>>, <<"A","c","t","i","v","e">>, <<"P","e","n","d","i","n","g">>, <<"C","o","n","f","i","r","m","e","d">>, <<"C","O","N","F","I","R","M","E","D">>, <<"U","n","c","o","n","f","i","r","m","e","d">>,
      <<"N","e","w"," ","R","e","q","u","e","s","t">>, <<"N","E","W">>, <<"R","e","n","e","w","a","l">>, <<"N","e","w"," ","-"," ","C","o","n","f","i","r","m","e","d">> }

PaxValues == { PyStr(<<"1">>), PyInt(1), PyStr(<<"2">>), PyStr(<<"4">>), PyStr(<<"S","o","l","o">>), PyStr(<<"1","1">>) }

ClientNames ==
    { <<"C","i","t","y"," ","T","o","u","r">>, <<"G","r","a","n","d"," ","N","i","l","e"," ","C","r","u","i","s","e">>, <<"S","h","o","r","e"," ","E","x","c","u","r","s","i","o","n"," ","D","a","y"," ","T","r","i","p">>, <<"S","H","O","R","E"," ","v","i","s","i","t">>,
      <<"N","i","l","e"," ","E","x","c","u","r","s","i","o","n">>, <<"H","a","l","f"," ","D","a","y"," ","C","a","i","r","o">>, <<"L","u","x","o","r"," ","d","a","y"," ","t","r","i","p">>, <<"D","a","y"," ","t","r","i","p"," ","e","x","c","u","r","s","i","o","n">> }

ProfitLeads ==
    { [pax |-> p, client_name |-> PyStr(n)] : p \in PaxValues, n \in ClientNames }
    \cup { [client_name |-> PyStr(n)] : n \in ClientNames }

PureInputs ==
    { [fn |-> "score_sales_agent", communications_count |-> c, lead_status |-> s] :
        c \in Counts, s \in Statuses }
    \cup { [fn |-> "check_profitability", lead_data |-> l] : l \in ProfitLeads }

InitPure ==
    /\ fn_in \in PureInputs
    /\ fn_out = <<>>
    /\ sheet = <<exact_order_headers>>
    /\ self_sheet = FALSE
    /\ pc = "idle"
    /\ success = "none"
    /\ stdout = <<>>
    /\ exit_status = -1
    /\ stages = <<>>
    /\ env = <<>>
    /\ checks = <<>>
    /\ clock = 1
    /\ run_appended = 0
    /\ call = NoCall

ScoreCall ==
    /\ fn_in.fn = "score_sales_agent"
    /\ fn_out = <<>>
    /\ fn_out' = <<score_sales_agent(fn_in.communications_count, fn_in.lead_status)>>
    /\ UNCHANGED <<sheet, self_sheet, pc, success, stdout, exit_status, stages, env,
                   checks, clock, run_appended, call, fn_in>>

ProfitabilityCall ==
    /\ fn_in.fn = "check_profitability"
    /\ fn_out = <<>>
    /\ fn_out' = <<check_profitability(fn_in.lead_data)>>
    /\ UNCHANGED <<sheet, self_sheet, pc, success, stdout, exit_status, stages, env,
                   checks, clock, run_appended, call, fn_in>>

NextPure == ScoreCall \/ ProfitabilityCall

SpecPure == InitPure /\ [][NextPure]_vars

Scored == fn_in.fn = "score_sales_agent" /\ fn_out # <<>>

HasConfirmed == Contains(<<"c","o","n","f","i","r","m","e","d">>, Lower(fn_in.lead_status))

HasNew == Contains(<<"n","e","w">>, Lower(fn_in.lead_status))

\* the bucket scores as the specification's testable properties give them
BucketScore(c) == IF c <= 0 THEN 3 ELSE IF c = 1 THEN 6 ELSE 8

\* C6: for every integer communications_count and a lead_status containing
\* neither "confirmed" nor "new", the score is 3 when the count is <= 0,
\* 6 when it is 1 and 8 when it is greater than 1.
C6_BucketScores ==
    (Scored /\ ~HasConfirmed /\ ~HasNew)
        => fn_out[1].score = BucketScore(fn_in.communications_count)

\* C7 as stated: every lead_status containing "new", with communications_count > 0,
\* gives score max(1, base-1) and the recommendation "Response needed for new lead".
C7_NewAlwaysAdjusts ==
    (Scored /\ HasNew /\ fn_in.communications_count > 0)
        => /\ fn_out[1].score = Max(1, BucketScore(fn_in.communications_count) - 1)
           /\ fn_out[1].recommendation = <<"R","e","s","p","o","n","s","e"," ","n","e","e","d","e","d"," ","f","o","r"," ","n","e","w"," ","l","e","a","d">>

\* C7 amended: a lead_status containing "new" and not "confirmed", with
\* communications_count > 0, gives score max(1, base-1) and the recommendation
\* "Response needed for new lead".
C7_NewWithoutConfirmedAdjusts ==
    (Scored /\ HasNew /\ ~HasConfirmed /\ fn_in.communications_count > 0)
        => /\ fn_out[1].score = Max(1, BucketScore(fn_in.communications_count) - 1)
           /\ fn_out[1].recommendation = <<"R","e","s","p","o","n","s","e"," ","n","e","e","d","e","d"," ","f","o","r"," ","n","e","w"," ","l","e","a","d">>

C7_Witness ==
    /\ Scored /\ HasNew /\ ~HasConfirmed
    /\ fn_in.communications_count = 1
    /\ fn_out[1].score = 5

Checked == fn_in.fn = "check_profitability" /\ fn_out # <<>>

SoloRule ==
    LET pax == Lower(Str(Get(fn_in.lead_data, "pax")))
    IN  pax = <<"1">> \/ Contains(<<"s","o","l","o">>, pax)

ShoreRule ==
    LET name == Lower(Str(Get(fn_in.lead_data, "client_name")))
    IN  Contains(<<"s","h","o","r","e">>, name) \/ Contains(<<"e","x","c","u","r","s","i","o","n">>, name)

ShortRule ==
    LET name == Lower(Str(Get(fn_in.lead_data, "client_name")))
    IN  Contains(<<"d","a","y"," ","t","r","i","p">>, name) \/ Contains(<<"h","a","l","f"," ","d","a","y">>, name)

\* the tags of the matching rules, in the documented order
MatchingTags ==
    (IF SoloRule THEN <<<<"S","o","l","o"," ","t","r","a","v","e","l","e","r"," ","(","1"," ","P","A","X",")">>>> ELSE <<>>)
    \o (IF ShoreRule THEN <<<<"S","h","o","r","e"," ","e","x","c","u","r","s","i","o","n">>>> ELSE <<>>)
    \o (IF ShortRule THEN <<<<"S","h","o","r","t"," ","d","u","r","a","t","i","o","n"," ","t","r","i","p">>>> ELSE <<>>)

\* C9: check_profitability returns the tags of the matching rules in the fixed
\* order solo, shore, short, joined with "; ", and "No issues identified"
\* exactly when no rule matches.
C9_ProfitabilityTags ==
    Checked =>
        /\ MatchingTags # <<>> => fn_out[1] = Join(<<";"," ">>, MatchingTags)
        /\ (fn_out[1] = <<"N","o"," ","i","s","s","u","e","s"," ","i","d","e","n","t","i","f","i","e","d">>) <=> (MatchingTags = <<>>)

C9_Witness ==
    /\ Checked
    /\ SoloRule /\ ShoreRule /\ ShortRule
    /\ fn_out[1] = <<"S","o","l","o"," ","t","r","a","v","e","l","e","r"," ","(","1"," ","P","A","X",")",";"," ","S","h","o","r","e"," ","e","x","c","u","r","s","i","o","n",";"," ","S","h","o","r","t"," ","d","u","r","a","t","i","o","n"," ","t","r","i","p">>

----------------------------------------------------------------------------
(* Properties of sync_to_google_sheets, checked under SpecSync *)

TokenColumn == header_column(sheet, <<"R","e","q","u","e","s","t"," ","T","o","k","e","n">>)

\* C1: in every state reached by sync_to_google_sheets calls from a sheet holding
\* only the header row, each request_token value appears in at most one data row.
C1_TokenAtMostOnce ==
    \A i, j \in 2..Len(sheet) :
        i # j => sheet[i][TokenColumn] # sheet[j][TokenColumn]

\* the incoming tokens of the last call that were not among the tokens it read
NewTokens ==
    { Get(call.leads[i], "request_token") : i \in 1..Len(call.leads) } \ call.existing

\* C2: within one call only the first occurrence of an incoming token that is not
\* in the sheet is put in the append batch and counted; with existing tokens
\* {"A"} and incoming tokens "A", "B", "B" one row is appended and 1 returned.
C2_FirstOccurrenceOnly ==
    (call.n = 1 /\ call.connected) =>
        /\ call.batch = Cardinality(NewTokens)
        /\ call.append_ok => /\ call.appended = Cardinality(NewTokens)
                             /\ call.ret = Cardinality(NewTokens)
        /\ (call.leads = ExampleLeads /\ call.existing = {PyStr(<<"A">>)} /\ call.append_ok)
              => (call.appended = 1 /\ call.ret = 1)

\* C3: a call with the same lead list as the call before it appends no row and
\* returns 0, leaving the sheet as the first call left it.
C3_SecondCallAppendsNothing ==
    call.repeat => (call.appended = 0 /\ call.ret = 0)

----------------------------------------------------------------------------
(* Properties of main and run_sync, checked under Spec *)

\* C4: main prints exactly one of SUCCESS, FAILED, FATAL_ERROR; SUCCESS with exit
\* status 0 exactly when run_sync returned true, and exit status 1 otherwise.
C4_MainReports ==
    /\ pc # "exited" => (stdout = <<>> /\ exit_status = -1)
    /\ pc = "exited" =>
        /\ Len(stdout) = 1
        /\ stdout[1] \in {"SUCCESS", "FAILED", "FATAL_ERROR"}
        /\ (stdout[1] = "SUCCESS") <=> (success = "true")
        /\ (exit_status = 0) <=> (success = "true")
        /\ success # "true" => exit_status = 1
        /\ success = "false" => stdout[1] = "FAILED"
        /\ success = "raised" => stdout[1] = "FATAL_ERROR"

C4_Witness ==
    /\ pc = "exited"
    /\ success = "false"
    /\ stdout = <<"FAILED">>
    /\ exit_status = 1

StageNames == <<"prereq", "setup", "data">>

StageFailed == \E i \in 1..Len(stages) : ~stages[i][2]

\* C5: run_sync runs prerequisites check, sheet setup, data sync in that order,
\* each at most once; a failed stage is the last one run, the run then gives
\* false, and a run that failed before the data stage has appended no row (a
\* failed prerequisites check also leaves the sheet handle unset).
C5_StagesInOrder ==
    /\ Len(stages) <= Len(StageNames)
    /\ \A i \in 1..Len(stages) : stages[i][1] = StageNames[i]
    /\ \A i \in 1..(Len(stages) - 1) : stages[i][2]
    /\ StageFailed => (pc \in {"report", "exited"} /\ success = "false")
    /\ success = "true" => (Len(stages) = Len(StageNames) /\ ~StageFailed)
    /\ pc = "setup" => Len(stages) = 1
    /\ pc = "data" => Len(stages) = 2
    /\ Len(stages) < Len(StageNames) => run_appended = 0
    /\ Len(stages) < 2 => ~self_sheet

C5_Witness ==
    /\ pc = "exited"
    /\ stages = << <<"prereq", TRUE>>, <<"setup", FALSE>> >>
    /\ self_sheet
    /\ success = "false"
    /\ run_appended = 0

\* the data stage of this run has been reached and its sync has returned
DataStageDone == Len(stages) = 3 /\ call.n = 1

\* C14: a run reports success only if it appended at least one row; whenever
\* the sync step returns 0 (every incoming token already in the sheet, or the
\* append failed) the data stage returns false, run_sync returns false, and
\* main prints FAILED and exits with status 1.
C14_NothingAppendedFails ==
    /\ (DataStageDone /\ call.ret = 0) =>
          /\ stages[3] = <<"data", FALSE>>
          /\ success = "false"
          /\ pc \in {"report", "exited"}
          /\ pc = "exited" => (stdout = <<"FAILED">> /\ exit_status = 1)
    /\ (pc = "exited" /\ (stdout = <<"SUCCESS">> \/ exit_status = 0)) =>
          (DataStageDone /\ run_appended >= 1 /\ call.ret >= 1)

C14_Witness ==
    /\ DataStageDone
    /\ call.connected /\ call.read_ok
    /\ Len(call.leads) = 1 /\ call.batch = 0 /\ call.ret = 0
    /\ pc = "exited"
    /\ stdout = <<"FAILED">>
    /\ exit_status = 1

----------------------------------------------------------------------------
(* Properties of check_prerequisites, checked under SpecPrereq *)

AllChecks == <<"exists", "json", "gspread", "google", "requests", "connectivity">>

\* whether check c passes in environment e; the connectivity check passes when
\* the request returns a response, whatever its status code
CheckPasses(e, c) ==
    IF c = "exists" THEN e.exists
    ELSE IF c = "json" THEN e.valid_json
    ELSE IF c = "connectivity" THEN e.net # "exception"
    ELSE c \in e.importable

\* C10: check_prerequisites returns true only if the credentials file exists and
\* parses, every required package is importable and the connectivity request
\* got an answer; the checks run in a fixed order and the first one that fails
\* makes it return false with none of the remaining checks run.
C10_FailFast ==
    stages # <<>> =>
        LET e == env[1]
            ret == stages[1][2]
            n == Len(checks)
        IN  /\ n \in 1..Len(AllChecks)
            /\ checks = SubSeq(AllChecks, 1, n)
            /\ \A i \in 1..(n - 1) : CheckPasses(e, checks[i])
            /\ ret <=> (n = Len(AllChecks) /\ CheckPasses(e, checks[n]))
            /\ ~ret => ~CheckPasses(e, checks[n])
            /\ ret => /\ e.exists
                      /\ e.valid_json
                      /\ \A i \in 1..Len(required_packages) : required_packages[i] \in e.importable
                      /\ e.net # "exception"

C10_Witness ==
    /\ stages = << <<"prereq", FALSE>> >>
    /\ checks = <<"exists", "json", "gspread", "google">>
    /\ "requests" \notin env[1].importable
    /\ env[1].net = "exception"


----------------------------------------------------------------------------
(* setup_exact_order_headers (exact_order_sheet_setup.py) *)

\* worksheet.clear(): every value of the worksheet is removed
clear(sh) == <<>>

\* worksheet.insert_row(values, index): values become row index, and the rows
\* from index on move one row down
insert_row(sh, values, index) ==
    SubSeq(sh, 1, index - 1) \o <<values>> \o SubSeq(sh, index, Len(sh))

\* how far a run gets: every remote call answers, the spreadsheet is not found,
\* or one of the calls raises something else
HeaderOutcomes == {"ok", "not_found", "open_error", "clear_error", "insert_error", "format_error"}

\* a slip: the prior content is not cleared before the header row is inserted
setup_exact_order_headers_no_clear(sh, outcome) ==
    IF outcome = "not_found" THEN [sheet |-> sh, printed |-> "not_found"]
    ELSE IF outcome \in {"open_error", "clear_error"} THEN [sheet |-> sh, printed |-> "error"]
    ELSE IF outcome = "insert_error" THEN [sheet |-> sh, printed |-> "error"]
    ELSE LET written == insert_row(sh, exact_order_headers, 1)
         IN  IF outcome = "format_error" THEN [sheet |-> written, printed |-> "error"]
             ELSE [sheet |-> written, printed |-> "headers_set"]

\* setup_exact_order_headers(client) on worksheet 0 holding sh: the worksheet
\* afterwards and the line printed, "headers_set" when no call raised
setup_exact_order_headers(sh, outcome) ==
    IF outcome = "not_found" THEN [sheet |-> sh, printed |-> "not_found"]
    ELSE IF outcome \in {"open_error", "clear_error"} THEN [sheet |-> sh, printed |-> "error"]
    ELSE LET cleared == clear(sh)
         IN  IF outcome = "insert_error" THEN [sheet |-> cleared, printed |-> "error"]
             ELSE LET written == insert_row(cleared, exact_order_headers, 1)
                  IN  IF outcome = "format_error"
                      THEN [sheet |-> written, printed |-> "error"]
                      ELSE [sheet |-> written, printed |-> "headers_set"]

----------------------------------------------------------------------------
(* The header initializer and the sync working on one worksheet *)

\* rows a sheet may hold before the initializer runs
LeadRow(t) == append_rows(<<>>, <<row_data(LeadWithToken(t))>>)[1]

\* the header row with its first column dropped, so every header sits one
\* column to the left
ShiftedHeaders == Tail(exact_order_headers)

PriorSheets ==
    { <<>>,
      <<exact_order_headers>>,
      <<exact_order_headers, LeadRow(<<"A">>)>>,
      <<ShiftedHeaders, <<<<"x">>, <<"7">>>> >>,
      <<LeadRow(<<"B">>)>> }

SheetLeadLists ==
    { <<LeadWithToken(<<"A">>)>>, <<LeadWithToken(<<"7">>)>>,
      <<LeadWithToken(<<"A">>), LeadWithToken(<<"7">>)>> }

InitSheet ==
    /\ sheet \in PriorSheets
    /\ self_sheet = TRUE
    /\ pc = "idle"
    /\ success = "none"
    /\ stdout = <<>>
    /\ exit_status = -1
    /\ stages = <<>>
    /\ env = <<>>
    /\ checks = <<>>
    /\ clock = 1
    /\ run_appended = 0
    /\ call = NoCall
    /\ fn_in = <<>>
    /\ fn_out = <<>>

\* one run of exact_order_sheet_setup.py; stdout is the output of that run and
\* fn_in the worksheet it found
SetupHeaders ==
    \E outcome \in HeaderOutcomes :
        LET r == setup_exact_order_headers(sheet, outcome)
        IN  /\ sheet' = r.sheet
            /\ stdout' = <<r.printed>>
            /\ fn_in' = <<sheet>>
            /\ call' = NoCall
            /\ UNCHANGED <<self_sheet, pc, success, exit_status, stages, env, checks,
                           clock, run_appended, fn_out>>

\* sync_to_google_sheets called on the worksheet as it stands
SheetSync ==
    \E leads_data \in SheetLeadLists, read_ok \in BOOLEAN, append_ok \in BOOLEAN :
        LET r == sync_to_google_sheets(sheet, self_sheet, leads_data, read_ok, append_ok)
        IN  /\ Len(r.sheet) <= MaxSheetRows
            /\ sheet' = r.sheet
            /\ call' = CallRecord(leads_data, self_sheet, read_ok, append_ok, r, sheet)
            /\ fn_in' = <<>>
            /\ UNCHANGED <<self_sheet, pc, success, stdout, exit_status, stages, env,
                           checks, clock, run_appended, fn_out>>

NextSheet == SetupHeaders \/ SheetSync

SpecSheet == InitSheet /\ [][NextSheet]_vars

----------------------------------------------------------------------------
(* Properties of setup_exact_order_headers, checked under SpecSheet *)

\* the initializer has just run to its end with no call raising
HeadersJustSet == stdout = <<"headers_set">> /\ fn_in # <<>>

\* C11: whatever worksheet 0 held before, when setup_exact_order_headers
\* completes without an error the worksheet holds exactly one row, that row is
\* the 55 header strings in their fixed order, and no prior content remains.
C11_HeadersReplaceContent ==
    HeadersJustSet =>
        /\ Len(sheet) = 1
        /\ Len(sheet[1]) = 55
        /\ sheet[1] = exact_order_headers
        /\ sheet[1][1] = <<"#">>
        /\ sheet[1][31] = <<"R","e","q","u","e","s","t"," ","T","o","k","e","n">>
        /\ sheet[1][55] = <<"L","e","a","d"," ","U","R","L">>

C11_Witness ==
    /\ HeadersJustSet
    /\ fn_in[1] = <<ShiftedHeaders, <<<<"x">>, <<"7">>>> >>
    /\ sheet = <<exact_order_headers>>

----------------------------------------------------------------------------
(* Properties of the rows sync writes under the initializer's header row *)

\* the last run of the initializer completed, and only syncs ran since
HeadersInPlace == stdout = <<"headers_set">>

\* the leads of the last call that were queued, in the order queued
QueuedLeads ==
    SelectSeq(call.leads, LAMBDA l : Get(l, "request_token") \notin call.existing)

\* every data row has one cell for each of the 55 headers
RowsHaveHeaderWidth ==
    \A r \in 2..Len(sheet) : Len(sheet[r]) = 55 /\ Len(sheet[r]) = Len(sheet[1])

\* the cell under "Request Token" of each appended row is that lead's token
TokenCellsHoldTokens ==
    (call.n = 1 /\ call.appended > 0) =>
        /\ call.appended = Len(QueuedLeads)
        /\ \A k \in 1..call.appended :
              sheet[Len(sheet) - call.appended + k][TokenColumn]
                  = Str(Get(QueuedLeads[k], "request_token"))

\* the tokens a sync would now read for deduplication include every token the
\* last call wrote
TokensReadBack ==
    (call.n = 1 /\ call.appended > 0) =>
        \A k \in 1..Len(QueuedLeads) :
            Get(QueuedLeads[k], "request_token") \in existing_tokens_of(sheet)

\* C13: after the header initializer has run and after any number of syncs,
\* every data row has exactly 55 cells in the header's column order, the cell
\* under "Request Token" of each appended row is that lead's request_token,
\* and the tokens sync reads back for deduplication are the tokens it wrote.
C13_RowsFollowHeaders ==
    HeadersInPlace => (RowsHaveHeaderWidth /\ TokenCellsHoldTokens /\ TokensReadBack)

----------------------------------------------------------------------------
(* Properties of one call of sync_to_google_sheets, checked under SpecSheet *)

\* the incoming leads of the last call whose token was not among those it read
NewLeads == { i \in 1..Len(call.leads) : Get(call.leads[i], "request_token") \notin call.existing }

\* C12: a call of sync_to_google_sheets issues at most one batch append, and none
\* when no incoming lead is new; when the append fails the call returns 0
\* however many rows were prepared, and when it succeeds the call returns the
\* number of rows of the appended batch.
C12_OneBatchAppend ==
    call.n = 1 =>
        /\ call.append_calls \in {0, 1}
        /\ call.append_calls = 1 <=> (call.connected /\ NewLeads # {})
        /\ call.connected => call.batch = Cardinality(NewLeads)
        /\ (call.append_calls = 1 /\ ~call.append_ok) => (call.ret = 0 /\ call.appended = 0)
        /\ (call.append_calls = 1 /\ call.append_ok)
              => (call.ret = call.batch /\ call.appended = call.batch)

C12_Witness ==
    /\ call.n = 1
    /\ call.append_calls = 1
    /\ ~call.append_ok
    /\ call.batch = 2
    /\ call.ret = 0
=============================================================================
